---- MODULE Spec2Model ----
(***************************************************************************)
(* A model of src/dxt1.js: the RGB565 codec, compress, getTransparentImage *)
(* and the module-level TRANSPARENT_BLOCK, over a heap of typed arrays.    *)
(*                                                                         *)
(* Numbers.  Every value the code hands to a bitwise operator is an int32, *)
(* and TLC's integers are 32-bit signed, so an int32 is held as itself.    *)
(* An element of a Uint32Array holds 32 bits; it is held here as the int32 *)
(* with the same 32 bits (0xffffffff is held as -1), and U32Hi / U32Lo     *)
(* read its unsigned 16-bit halves.  Storing an int32 into a Uint32Array   *)
(* (ToUint32) and reading it back into a bitwise operator (ToInt32) keep   *)
(* the 32 bits, so both are the identity on this representation.           *)
(***************************************************************************)
EXTENDS Integers, Sequences, FiniteSets, TLC

VARIABLES heap, imgs, calls, codec

vars == <<heap, imgs, calls, codec>>

(***************************************************************************)
(* JavaScript's bitwise operators on int32 operands.                       *)
(***************************************************************************)
RECURSIVE And16(_, _)
And16(a, b) ==
    IF a = 0 \/ b = 0 THEN 0
    ELSE (IF a % 2 = 1 /\ b % 2 = 1 THEN 1 ELSE 0) + 2 * And16(a \div 2, b \div 2)

RECURSIVE Or16(_, _)
Or16(a, b) ==
    IF a = 0 THEN b
    ELSE IF b = 0 THEN a
    ELSE (IF a % 2 = 1 \/ b % 2 = 1 THEN 1 ELSE 0) + 2 * Or16(a \div 2, b \div 2)

\* The unsigned upper and lower 16 bits of a 32-bit pattern.
U32Hi(x) == (x \div 65536) % 65536
U32Lo(x) == x % 65536

\* The int32 whose upper and lower halves are hi and lo.
Join(hi, lo) == (IF hi >= 32768 THEN hi - 65536 ELSE hi) * 65536 + lo

\* a & b
JsAnd(a, b) ==
    IF a = 0 \/ b = 0 THEN 0
    ELSE Join(And16(U32Hi(a), U32Hi(b)), And16(U32Lo(a), U32Lo(b)))

\* a | b
JsOr(a, b) ==
    IF a = 0 THEN b
    ELSE IF b = 0 THEN a
    ELSE Join(Or16(U32Hi(a), U32Hi(b)), Or16(U32Lo(a), U32Lo(b)))

\* a << n, 0 <= n <= 31: the low 32 bits of a * 2^n, as an int32.
JsShl(a, n) ==
    IF n >= 16
    THEN Join((U32Lo(a) * 2^(n - 16)) % 65536, 0)
    ELSE Join((((U32Hi(a) * 2^n) % 65536) + ((U32Lo(a) * 2^n) \div 65536)) % 65536,
              (U32Lo(a) * 2^n) % 65536)

\* a >> n: the sign-propagating shift is the floor of a / 2^n.
JsShr(a, n) == a \div (2^n)

\* (x / 3) | 0 for x >= 0: truncation of the quotient.
TruncDiv3(x) == x \div 3

\* F applied to the value of v.  JavaScript evaluates an assignment when it is
\* reached; Strict does the same for a definition, where LET would leave v
\* unevaluated until F uses it.
Strict(v, F(_)) == CHOOSE r \in {F(x) : x \in {v}} : TRUE

(***************************************************************************)
(* The RGB565 codec, src/dxt1.js lines 20-61.                              *)
(***************************************************************************)
toRGB565(r, g, b) ==
    JsOr(JsOr(JsShl(JsAnd(r, 248), 8), JsShl(JsAnd(g, 252), 3)), JsShr(b, 3))

rFromRGB565(c) ==
    LET r == JsShr(c, 11)
    IN  JsOr(JsShl(r, 3), JsShr(r, 2))

\* gFromRGB565 with a 5-bit mask on the green field.
gFromRGB565Mask31(c) ==
    LET g == JsAnd(JsShr(c, 5), 31)
    IN  JsOr(JsShl(g, 2), JsShr(g, 4))

gFromRGB565(c) ==
    LET g == JsAnd(JsShr(c, 5), 63)
    IN  JsOr(JsShl(g, 2), JsShr(g, 4))

bFromRGB565(c) ==
    LET b == JsAnd(c, 31)
    IN  JsOr(JsShl(b, 3), JsShr(b, 2))

INSET_SHIFT == 4

TRANSPARENT_BLOCK_SIZE == 1024

(***************************************************************************)
(* The heap.  heap[a] is the array at address a; JavaScript's element i is *)
(* the (i+1)-th of the sequence.  A return value is a reference to a       *)
(* buffer, null, or a thrown RangeError.                                   *)
(***************************************************************************)
At(arr, i) == arr[i + 1]

NewUint32Array(n) == [k \in 1..n |-> 0]

Null == [kind |-> "null", ref |-> 0]
RangeError == [kind |-> "RangeError", ref |-> 0]
Buffer(a) == [kind |-> "buffer", ref |-> a]

\* The address of the module-level TRANSPARENT_BLOCK, the first allocation.
TRANSPARENT_BLOCK == 1

\* Lines 67-71: new Uint32Array(TRANSPARENT_BLOCK_SIZE), every element then set
\* to 0xffffffff by the loop over i = 0 .. TRANSPARENT_BLOCK_SIZE - 1.
FilledBlock == [i \in 1..TRANSPARENT_BLOCK_SIZE |-> Join(65535, 65535)]

\* The heap once the module is loaded.
ModuleHeap == << FilledBlock >>

(***************************************************************************)
(* compress, src/dxt1.js lines 81-201.  The loop state st holds the array  *)
(* compressed, currWord, and two records of what the run did: writers[n],  *)
(* the blocks that wrote word n-1 of compressed, and trace, one entry per  *)
(* block.                                                                  *)
(***************************************************************************)

\* compressed[currWord++] = v
WriteWord(st, v, blk) ==
    [st EXCEPT !.compressed[st.currWord + 1] = v,
               !.writers[st.currWord + 1] = @ \cup {blk},
               !.currWord = @ + 1]

\* The sixteen compressed[currWord] |= ... of one block left v in the word.
OrWord(st, v, blk) ==
    [st EXCEPT !.compressed[st.currWord + 1] = v,
               !.writers[st.currWord + 1] = @ \cup {blk}]

\* The bbox loop's offset (line 112) and the index loop's (line 178).
BBoxOffset(w, i, j, m) == 4 * ((i + JsShr(m, 2)) * w + j + JsAnd(m, 3))

\* IndexOffset with a fixed row stride of 4 pixels.
IndexOffsetStride4(w, i, j, k) == JsShl((i + JsShr(k, 2)) * 4 + j + JsAnd(k, 3), 2)

IndexOffset(w, i, j, k) == JsShl((i + JsShr(k, 2)) * w + j + JsAnd(k, 3), 2)

\* pixels[offset], pixels[offset + 1], pixels[offset + 2] (lines 114-120, 181-183).
ChannelR(pixels, offset) == At(pixels, offset)
ChannelG(pixels, offset) == At(pixels, offset + 1)

\* ChannelB reading the alpha byte.
ChannelBAlpha(pixels, offset) == At(pixels, offset + 3)

ChannelB(pixels, offset) == At(pixels, offset + 2)

\* Lines 111-121: the RGB bounding box of the block at (j, i).
RECURSIVE BBoxLoop(_, _, _, _, _, _)
BBoxLoop(pixels, w, i, j, m, bb) ==
    IF m < 16
    THEN LET offset == BBoxOffset(w, i, j, m)
             pR == ChannelR(pixels, offset)
             pG == ChannelG(pixels, offset)
             pB == ChannelB(pixels, offset)
         IN  Strict([maxR |-> IF bb.maxR < pR THEN pR ELSE bb.maxR,
                     maxG |-> IF bb.maxG < pG THEN pG ELSE bb.maxG,
                     maxB |-> IF bb.maxB < pB THEN pB ELSE bb.maxB,
                     minR |-> IF bb.minR > pR THEN pR ELSE bb.minR,
                     minG |-> IF bb.minG > pG THEN pG ELSE bb.minG,
                     minB |-> IF bb.minB > pB THEN pB ELSE bb.minB],
                    LAMBDA next : BBoxLoop(pixels, w, i, j, m + 1, next))
    ELSE bb

\* Inset without the shift.
InsetNoShift(max, min) == max - min

\* Lines 125-127.
Inset(max, min) == JsShr(max - min, INSET_SHIFT)

\* Lines 130-132 and 136-138.
ClampLow(max, inset) == IF max >= inset THEN max - inset ELSE 0
ClampHigh(min, inset) == IF min + inset < 255 THEN min + inset ELSE 255

\* Lines 125-139: the two endpoints from the bounding box bb, before the
\* comparison; clamped tells whether a clamp changed a value.
InsetEndpoints(bb) ==
    LET insetR == Inset(bb.maxR, bb.minR)
        insetG == Inset(bb.maxG, bb.minG)
        insetB == Inset(bb.maxB, bb.minB)
    IN  [bb |-> bb,
         maxColor565 |-> toRGB565(ClampLow(bb.maxR, insetR),
                                  ClampLow(bb.maxG, insetG),
                                  ClampLow(bb.maxB, insetB)),
         minColor565 |-> toRGB565(ClampHigh(bb.minR, insetR),
                                  ClampHigh(bb.minG, insetG),
                                  ClampHigh(bb.minB, insetB)),
         clamped |-> \/ ClampLow(bb.maxR, insetR) # bb.maxR - insetR
                     \/ ClampLow(bb.maxG, insetG) # bb.maxG - insetG
                     \/ ClampLow(bb.maxB, insetB) # bb.maxB - insetB
                     \/ ClampHigh(bb.minR, insetR) # bb.minR + insetR
                     \/ ClampHigh(bb.minG, insetG) # bb.minG + insetG
                     \/ ClampHigh(bb.minB, insetB) # bb.minB + insetB]

\* Lines 102-139: the endpoints of the block at (j, i).
Endpoints(pixels, w, i, j) ==
    Strict(BBoxLoop(pixels, w, i, j, 0,
                    [maxR |-> 0, maxG |-> 0, maxB |-> 0,
                     minR |-> 255, minG |-> 255, minB |-> 255]),
           LAMBDA bb : InsetEndpoints(bb))

\* Lines 155-169: colorsR, colorsG, colorsB as one sequence of <<R, G, B>>.
Palette(maxColor565, minColor565) ==
    LET colorsR0 == rFromRGB565(maxColor565)
        colorsG0 == gFromRGB565(maxColor565)
        colorsB0 == bFromRGB565(maxColor565)
        colorsR1 == rFromRGB565(minColor565)
        colorsG1 == gFromRGB565(minColor565)
        colorsB1 == bFromRGB565(minColor565)
    IN  << <<colorsR0, colorsG0, colorsB0>>,
           <<colorsR1, colorsG1, colorsB1>>,
           <<TruncDiv3(colorsR1 + JsShl(colorsR0, 1)),
             TruncDiv3(colorsG1 + JsShl(colorsG0, 1)),
             TruncDiv3(colorsB1 + JsShl(colorsB0, 1))>>,
           <<TruncDiv3(JsShl(colorsR1, 1) + colorsR0),
             TruncDiv3(JsShl(colorsG1, 1) + colorsG0),
             TruncDiv3(JsShl(colorsB1, 1) + colorsB0)>> >>

\* Closer that also replaces on a tie.
CloserOrEqual(minDist, dist) == minDist >= dist

\* Line 187: whether palette entry n replaces the best found so far.
Closer(minDist, dist) == minDist > dist

\* Lines 180-191: the loop over the four palette entries.
RECURSIVE NearestLoop(_, _, _, _, _, _)
NearestLoop(pixels, offset, colors, n, minDist, idx) ==
    IF n < 4
    THEN LET dR == ChannelR(pixels, offset) - colors[n + 1][1]
             dG == ChannelG(pixels, offset) - colors[n + 1][2]
             dB == ChannelB(pixels, offset) - colors[n + 1][3]
             dist == dR * dR + dG * dG + dB * dB
         IN  IF Closer(minDist, dist)
             THEN NearestLoop(pixels, offset, colors, n + 1, dist, n)
             ELSE NearestLoop(pixels, offset, colors, n + 1, minDist, idx)
    ELSE idx

\* Lines 174-194: the loop over the sixteen pixels of the block. word is what
\* compressed[currWord] holds; each pass ORs one index into it (line 193).
RECURSIVE IndexLoop(_, _, _, _, _, _, _)
IndexLoop(word, pixels, w, i, j, colors, k) ==
    IF k < 16
    THEN LET offset == IndexOffset(w, i, j, k)
             idx == NearestLoop(pixels, offset, colors, 0, 200000000, 0)
         IN  Strict(JsOr(word, JsShl(idx, JsShl(k, 1))),
                    LAMBDA next : IndexLoop(next, pixels, w, i, j, colors, k + 1))
    ELSE word

\* EndpointWord that leaves out the lower half.
EndpointWordHighOnly(high, low) == JsShl(high, 16)

\* Line 143 and line 171: the endpoint word.
EndpointWord(high, low) == JsOr(JsShl(high, 16), low)

\* Lines 154-196: the block at (j, i) when its endpoints differ.
Indexed(st, pixels, w, i, j, maxColor565, minColor565) ==
    Strict(Palette(maxColor565, minColor565), LAMBDA colors :
    Strict(WriteWord(st, EndpointWord(minColor565, maxColor565), <<j, i>>), LAMBDA st1 :
    Strict(IndexLoop(At(st1.compressed, st1.currWord), pixels, w, i, j, colors, 0),
           LAMBDA word : [OrWord(st1, word, <<j, i>>) EXCEPT !.currWord = @ + 1])))

\* Swap with the comparison reversed.
SwapReversed(maxColor565, minColor565) == maxColor565 > minColor565

\* Line 148: whether the two endpoints are exchanged.
Swap(maxColor565, minColor565) == maxColor565 < minColor565

\* Lines 142-152, given the endpoints e of lines 102-139.
Encode(st, pixels, w, i, j, e) ==
    LET swap == Swap(e.maxColor565, e.minColor565)
        entry == [j |-> j, i |-> i, word |-> st.currWord, bb |-> e.bb,
                  maxColor565 |-> e.maxColor565, minColor565 |-> e.minColor565,
                  clamped |-> e.clamped, swapped |-> swap,
                  degenerate |-> e.maxColor565 = e.minColor565]
        st0 == [st EXCEPT !.trace = Append(@, entry)]
    IN  IF e.maxColor565 = e.minColor565
        THEN WriteWord(WriteWord(st0, EndpointWord(e.maxColor565, e.maxColor565),
                                 <<j, i>>),
                       0, <<j, i>>)
        ELSE IF swap
             THEN Indexed(st0, pixels, w, i, j, e.minColor565, e.maxColor565)
             ELSE Indexed(st0, pixels, w, i, j, e.maxColor565, e.minColor565)

\* Lines 102-196: the body of the loop over blocks, for the block at (j, i).
Block(st, pixels, w, i, j) ==
    Strict(Endpoints(pixels, w, i, j), LAMBDA e : Encode(st, pixels, w, i, j, e))

\* Line 101: for (var j = 0; j < w; j += 4)
RECURSIVE ColumnLoop(_, _, _, _, _)
ColumnLoop(st, pixels, w, i, j) ==
    IF j < w
    THEN Strict(Block(st, pixels, w, i, j),
                LAMBDA next : ColumnLoop(next, pixels, w, i, j + 4))
    ELSE st

\* Line 100: for (var i = 0; i < h; i += 4)
RECURSIVE RowLoop(_, _, _, _, _)
RowLoop(st, pixels, w, h, i) ==
    IF i < h
    THEN Strict(ColumnLoop(st, pixels, w, i, 0),
                LAMBDA next : RowLoop(next, pixels, w, h, i + 4))
    ELSE st

\* InvalidDimensions with a 3-bit mask on the width.
InvalidDimensionsMask7(w, h) == JsOr(JsAnd(w, 7), JsAnd(h, 3)) # 0

\* Line 86: (w & 3) | (h & 3)
InvalidDimensions(w, h) == JsOr(JsAnd(w, 3), JsAnd(h, 3)) # 0

\* Lines 90-200, for valid dimensions: the final loop state.
Blocks(pixels, w, h) ==
    RowLoop([compressed |-> NewUint32Array(JsShr(w * h, 3)),
             currWord |-> 0,
             writers |-> [k \in 1..JsShr(w * h, 3) |-> {}],
             trace |-> << >>],
            pixels, w, h, 0)

\* compress(img) run on the heap hp: the heap it leaves and what it returns.
\* The one array it writes is compressed, which it allocates (line 92).
compress(hp, img) ==
    IF InvalidDimensions(img.width, img.height)
    THEN [heap |-> hp, ret |-> Null, writers |-> << >>, trace |-> << >>]
    ELSE Strict(hp[img.data], LAMBDA pixels :
         Strict(Blocks(pixels, img.width, img.height), LAMBDA st :
             [heap |-> Append(hp, st.compressed), ret |-> Buffer(Len(hp) + 1),
              writers |-> st.writers, trace |-> st.trace]))

(***************************************************************************)
(* getTransparentImage, src/dxt1.js lines 210-221.                         *)
(***************************************************************************)

\* target.set(source, offset) of %TypedArray%: a RangeError, and nothing
\* written, when the source does not fit into the target at offset.
TypedArraySet(hp, target, source, offset) ==
    IF Len(hp[source]) + offset > Len(hp[target])
    THEN [thrown |-> TRUE, heap |-> hp]
    ELSE [thrown |-> FALSE,
          heap |-> [hp EXCEPT ![target] =
                       [k \in 1..Len(hp[target]) |->
                           IF k > offset /\ k <= offset + Len(hp[source])
                           THEN hp[source][k - offset]
                           ELSE hp[target][k]]]]

\* FillChunk with target and source exchanged.
FillChunkReversed(hp, data, offset) == TypedArraySet(hp, TRANSPARENT_BLOCK, data, offset)

\* Line 217: data.set(TRANSPARENT_BLOCK, offset)
FillChunk(hp, data, offset) == TypedArraySet(hp, data, TRANSPARENT_BLOCK, offset)

\* Lines 216-218.
RECURSIVE ChunkLoop(_, _, _, _)
ChunkLoop(hp, data, dataLength, offset) ==
    IF offset < dataLength
    THEN LET r == FillChunk(hp, data, offset)
         IN  IF r.thrown
             THEN [heap |-> r.heap, ret |-> RangeError]
             ELSE ChunkLoop(r.heap, data, dataLength, offset + TRANSPARENT_BLOCK_SIZE)
    ELSE [heap |-> hp, ret |-> Buffer(data)]

getTransparentImage(hp, width, height) ==
    LET dataLength == JsShr(width * height, 3)
        data == Len(hp) + 1
    IN  ChunkLoop(Append(hp, NewUint32Array(dataLength)), data, dataLength, 0)

(***************************************************************************)
(* The callers' images: an img has width, height and data, the address of  *)
(* a Uint8ClampedArray of width * height RGBA pixels in row-major order.   *)
(* The images are drawn from two colours of Colours laid out by a pattern. *)
(***************************************************************************)
MaxDim == 8
MaxCalls == 2

Dims == 4..MaxDim

Colours ==
    << <<0, 0, 0>>, <<255, 255, 255>>, <<25, 25, 25>>, <<255, 0, 0>>,
       <<7, 3, 7>>, <<130, 200, 60>>, <<0, 255, 128>>, <<254, 1, 250>>,
       <<100, 100, 255>>, <<16, 8, 0>> >>

Patterns == {"solid", "checker", "blocks", "spot", "blend"}

AlphaModes == {"opaque", "clear", "ramp"}

\* The colour of pixel (x, y). k is the pixel's place in its block and blk
\* tells the blocks apart, so that neighbouring blocks differ.
PixelColour(pat, cA, cB, x, y) ==
    LET k == (x % 4) + 4 * (y % 4)
        blk == (x \div 4) + 2 * (y \div 4)
        spot == (5 * blk) % 16
        t == (k + 5 * blk) % 16
    IN  CASE pat = "solid" -> cA
          [] pat = "checker" -> IF (x + y) % 2 = 0 THEN cA ELSE cB
          [] pat = "blocks" -> IF blk % 2 = 0 THEN cA ELSE cB
          [] pat = "spot" -> IF k = spot THEN cB
                             ELSE IF k = 15 - spot
                                  THEN [c \in 1..3 |-> (cA[c] + cB[c]) \div 2]
                                  ELSE cA
          [] pat = "blend" -> [c \in 1..3 |-> (cA[c] * (15 - t) + cB[c] * t) \div 15]

PixelAlpha(mode, x, y) ==
    CASE mode = "opaque" -> 255
      [] mode = "clear" -> 0
      [] mode = "ramp" -> (37 * x + 101 * y + 3) % 256

ImageData(w, h, pat, cA, cB, mode) ==
    [p \in 1..(4 * w * h) |->
        LET x == ((p - 1) \div 4) % w
            y == ((p - 1) \div 4) \div w
            c == (p - 1) % 4
        IN  IF c = 3 THEN PixelAlpha(mode, x, y)
            ELSE PixelColour(pat, cA, cB, x, y)[c + 1]]

NoCodec == [pc |-> "idle", r |-> 0, g |-> 0, b |-> 0, c |-> 0, out |-> <<0, 0, 0>>]

(***************************************************************************)
(* The operations.  calls is the log of the calls made so far.             *)
(***************************************************************************)
Compress(n) ==
    /\ n \in 1..Len(imgs)
    /\ LET r == compress(heap, imgs[n])
       IN  /\ heap' = r.heap
           /\ calls' = Append(calls,
                  [op |-> "compress", img |-> n,
                   width |-> imgs[n].width, height |-> imgs[n].height,
                   ret |-> r.ret, writers |-> r.writers, trace |-> r.trace])
    /\ UNCHANGED <<imgs, codec>>

GetTransparentImage(width, height) ==
    /\ LET r == getTransparentImage(heap, width, height)
       IN  /\ heap' = r.heap
           /\ calls' = Append(calls,
                  [op |-> "getTransparentImage", img |-> 0,
                   width |-> width, height |-> height,
                   ret |-> r.ret, writers |-> << >>, trace |-> << >>])
    /\ UNCHANGED <<imgs, codec>>

(***************************************************************************)
(* Spec: a caller holding two images of the same size makes up to MaxCalls *)
(* calls of compress and getTransparentImage.                              *)
(***************************************************************************)
PairDims == {<<4, 4>>, <<8, 4>>}

PairContents == {<<"spot", 1, 3>>, <<"blend", 6, 8>>}

\* How the second image differs from the first: its alpha, and whether its
\* second colour is another one.
Variants == {<<"clear", 0>>, <<"ramp", 0>>, <<"opaque", 1>>}

TransparentDims == {<<4, 4>>, <<8, 4>>, <<64, 128>>, <<128, 128>>}

Init ==
    \E d \in PairDims, pc \in PairContents, v \in Variants :
        /\ heap = ModuleHeap \o
               << ImageData(d[1], d[2], pc[1], Colours[pc[2]], Colours[pc[3]], "opaque"),
                  ImageData(d[1], d[2], pc[1], Colours[pc[2]], Colours[pc[3] + v[2]], v[1]) >>
        /\ imgs = << [width |-> d[1], height |-> d[2], data |-> 2],
                     [width |-> d[1], height |-> d[2], data |-> 3] >>
        /\ calls = << >>
        /\ codec = NoCodec

CallCompress == Len(calls) < MaxCalls /\ \E n \in 1..Len(imgs) : Compress(n)

CallGetTransparentImage ==
    Len(calls) < MaxCalls /\ \E d \in TransparentDims : GetTransparentImage(d[1], d[2])

Next == CallCompress \/ CallGetTransparentImage

Spec == Init /\ [][Next]_vars

(***************************************************************************)
(* SpecCompress: one call of compress on one image, of every size up to    *)
(* MaxDim and every pattern over every two colours.                        *)
(***************************************************************************)
InitCompress ==
    \E w \in Dims, h \in Dims, pat \in Patterns,
       a \in 1..Len(Colours), b \in 1..Len(Colours) :
        /\ heap = ModuleHeap \o
               << ImageData(w, h, pat, Colours[a], Colours[b], "opaque") >>
        /\ imgs = << [width |-> w, height |-> h, data |-> 2] >>
        /\ calls = << >>
        /\ codec = NoCodec

NextCompress == calls = << >> /\ Compress(1)

SpecCompress == InitCompress /\ [][NextCompress]_vars

(***************************************************************************)
(* SpecCodec: toRGB565 applied to an RGB8 colour, and the three expansions *)
(* applied to the result.  One channel ranges over 0..255 while the other  *)
(* two are drawn from Samples.                                             *)
(***************************************************************************)
Samples == {0, 7, 8, 127, 128, 255}

Channel == 0..255

CodecInputs ==
    (Channel \X Samples \X Samples) \cup (Samples \X Channel \X Samples)
        \cup (Samples \X Samples \X Channel)

InitCodec ==
    /\ heap = ModuleHeap
    /\ imgs = << >>
    /\ calls = << >>
    /\ \E rgb \in CodecInputs :
          codec = [pc |-> "input", r |-> rgb[1], g |-> rgb[2], b |-> rgb[3],
                   c |-> 0, out |-> <<0, 0, 0>>]

Pack ==
    /\ codec.pc = "input"
    /\ codec' = [codec EXCEPT !.pc = "packed", !.c = toRGB565(codec.r, codec.g, codec.b)]
    /\ UNCHANGED <<heap, imgs, calls>>

Unpack ==
    /\ codec.pc = "packed"
    /\ codec' = [codec EXCEPT !.pc = "unpacked",
                     !.out = <<rFromRGB565(codec.c), gFromRGB565(codec.c),
                               bFromRGB565(codec.c)>>]
    /\ UNCHANGED <<heap, imgs, calls>>

NextCodec == Pack \/ Unpack

SpecCodec == InitCodec /\ [][NextCodec]_vars

(***************************************************************************)
(* What the properties below read off a state.                             *)
(***************************************************************************)
Abs(x) == IF x < 0 THEN -x ELSE x

\* The calls of compress so far, and those that returned a buffer.
CompressCalls == {n \in DOMAIN calls : calls[n].op = "compress"}
CompressReturns == {n \in CompressCalls : calls[n].ret.kind = "buffer"}

\* The buffer call n returned and the pixels of the image it was given.
Out(n) == heap[calls[n].ret.ref]
PixelsOf(n) == heap[imgs[calls[n].img].data]

\* The blocks of a W x H image as <<column of blocks, row of blocks>>.
BlocksOf(W, H) == (0..((W \div 4) - 1)) \X (0..((H \div 4) - 1))

\* The place of block b among the blocks, in row-major order.
BlockNumber(W, b) == b[2] * (W \div 4) + b[1]

\* The two words of block b in the buffer out.
EndpointsOf(out, W, b) == out[2 * BlockNumber(W, b) + 1]
IndicesOf(out, W, b) == out[2 * BlockNumber(W, b) + 2]

\* The colour <<R, G, B>> of pixel k (k = row * 4 + col) of block b.
PixelOf(pixels, W, b, k) ==
    LET p == (4 * b[2] + (k \div 4)) * W + 4 * b[1] + (k % 4)
    IN  <<pixels[4 * p + 1], pixels[4 * p + 2], pixels[4 * p + 3]>>

\* The sixteen RGBA pixels of block b as a 4 x 4 image's data.
SubImage(pixels, W, b) ==
    [q \in 1..64 |->
        pixels[4 * ((4 * b[2] + ((q - 1) \div 16)) * W + 4 * b[1] + (((q - 1) \div 4) % 4))
               + ((q - 1) % 4) + 1]]

\* What compress returns for a 4 x 4 image holding just these pixels.
Alone(sub) == compress(<<sub>>, [width |-> 4, height |-> 4, data |-> 1]).heap[2]

\* The 2-bit index of pixel k in the index word.
Field(word, k) ==
    IF k < 8 THEN (U32Lo(word) \div (4^k)) % 4 ELSE (U32Hi(word) \div (4^(k - 8))) % 4

\* The palette as the format defines it from the stored endpoints.
Expand(c) == <<rFromRGB565(c), gFromRGB565(c), bFromRGB565(c)>>

FormatPalette(max, min) ==
    LET p0 == Expand(max)
        p1 == Expand(min)
    IN  << p0, p1,
           [c \in 1..3 |-> (2 * p0[c] + p1[c]) \div 3],
           [c \in 1..3 |-> (p0[c] + 2 * p1[c]) \div 3] >>

Dist(p, q) ==
    (p[1] - q[1]) * (p[1] - q[1]) + (p[2] - q[2]) * (p[2] - q[2])
        + (p[3] - q[3]) * (p[3] - q[3])

\* The bytes of a 32-bit word are all 0xFF.
AllBytesFF(word) == U32Hi(word) = 65535 /\ U32Lo(word) = 65535

(***************************************************************************)
(* C1 (stated as claimed; the code violates it).  getTransparentImage(W,   *)
(* H) returns, for all W and H that are multiples of 4, a buffer of        *)
(* W*H/8 words whose every byte is 0xFF.                                   *)
(***************************************************************************)
C1_TransparentImage ==
    \A n \in DOMAIN calls :
        (/\ calls[n].op = "getTransparentImage"
         /\ calls[n].width % 4 = 0
         /\ calls[n].height % 4 = 0)
        => /\ calls[n].ret.kind = "buffer"
           /\ Len(Out(n)) = (calls[n].width * calls[n].height) \div 8
           /\ \A k \in DOMAIN Out(n) : AllBytesFF(Out(n)[k])

(***************************************************************************)
(* C2.  compress returns null, and allocates no buffer, exactly when width *)
(* or height is not a multiple of 4; otherwise it returns a new buffer.    *)
(***************************************************************************)
C2_InvalidDimensions ==
    \A n \in CompressCalls :
        /\ calls[n].ret = Null
              <=> (calls[n].width % 4 # 0 \/ calls[n].height % 4 # 0)
        /\ calls[n].ret = Null => Len(heap) = Len(imgs) + 1
        /\ calls[n].ret # Null =>
              /\ calls[n].ret.kind = "buffer"
              /\ calls[n].ret.ref = Len(imgs) + 2
              /\ Len(heap) = Len(imgs) + 2

C2_Witness ==
    \E n \in CompressCalls : calls[n].width = 5 /\ calls[n].ret = Null

(***************************************************************************)
(* C3.  For W and H multiples of 4 compress returns W*H/8 words; block     *)
(* (j, i) occupies words 2*((i/4)*(W/4) + j/4) and the next; these two     *)
(* words are written by that block alone, and are what compress returns    *)
(* for the sixteen pixels of the block taken alone.                        *)
(***************************************************************************)
C3_Layout ==
    \A n \in CompressCalls :
        (calls[n].width % 4 = 0 /\ calls[n].height % 4 = 0) =>
            /\ n \in CompressReturns
            /\ Len(Out(n)) = (calls[n].width * calls[n].height) \div 8
            /\ Len(calls[n].writers) = Len(Out(n))
            /\ \A b \in BlocksOf(calls[n].width, calls[n].height) :
                  \A alone \in {Alone(SubImage(PixelsOf(n), calls[n].width, b))} :
                      /\ EndpointsOf(Out(n), calls[n].width, b) = alone[1]
                      /\ IndicesOf(Out(n), calls[n].width, b) = alone[2]
                      /\ EndpointsOf(calls[n].writers, calls[n].width, b)
                            = {<<4 * b[1], 4 * b[2]>>}
                      /\ IndicesOf(calls[n].writers, calls[n].width, b)
                            = {<<4 * b[1], 4 * b[2]>>}

\* An 8 x 8 image whose four blocks are encoded to four different word pairs.
C3_Witness ==
    \E n \in CompressReturns :
        /\ calls[n].width = 8
        /\ calls[n].height = 8
        /\ Cardinality({<<EndpointsOf(Out(n), 8, b), IndicesOf(Out(n), 8, b)>> :
                           b \in BlocksOf(8, 8)}) = 4

(***************************************************************************)
(* C4 as claimed: unpack(pack(r, g, b)) differs from (r, g, b) by at most  *)
(* 4 in R, at most 4 in B and at most 2 in G.  The code violates it.       *)
(***************************************************************************)
C4_RoundTripClaimed ==
    codec.pc = "unpacked" =>
        /\ Abs(codec.r - codec.out[1]) <= 4
        /\ Abs(codec.g - codec.out[2]) <= 2
        /\ Abs(codec.b - codec.out[3]) <= 4

(***************************************************************************)
(* C4 as amended: unpack(pack(r, g, b)) differs from (r, g, b) by at most  *)
(* 7 in R, at most 7 in B and at most 3 in G.                              *)
(***************************************************************************)
C4_RoundTrip ==
    codec.pc = "unpacked" =>
        /\ Abs(codec.r - codec.out[1]) <= 7
        /\ Abs(codec.g - codec.out[2]) <= 3
        /\ Abs(codec.b - codec.out[3]) <= 7

\* The bounds are reached: (7, 3, 7) packs to 0 and unpacks to (0, 0, 0).
C4_Witness ==
    /\ codec.pc = "unpacked"
    /\ codec.r - codec.out[1] = 7
    /\ codec.g - codec.out[2] = 3
    /\ codec.b - codec.out[3] = 7

(***************************************************************************)
(* C5.  A block whose sixteen pixels have one colour (r, g, b) is encoded  *)
(* as the endpoint word with both halves c565 = toRGB565(r, g, b), read    *)
(* as unsigned 16-bit halves of the 32-bit word, and the index word 0.     *)
(***************************************************************************)
SolidBlock(pixels, W, b) ==
    \A k \in 1..15 : PixelOf(pixels, W, b, k) = PixelOf(pixels, W, b, 0)

C5_SolidBlock ==
    \A n \in CompressReturns :
        \A b \in BlocksOf(calls[n].width, calls[n].height) :
            SolidBlock(PixelsOf(n), calls[n].width, b) =>
                \A c \in {PixelOf(PixelsOf(n), calls[n].width, b, 0)} :
                    /\ U32Hi(EndpointsOf(Out(n), calls[n].width, b))
                          = toRGB565(c[1], c[2], c[3])
                    /\ U32Lo(EndpointsOf(Out(n), calls[n].width, b))
                          = toRGB565(c[1], c[2], c[3])
                    /\ IndicesOf(Out(n), calls[n].width, b) = 0

\* A solid block whose c565 has its top bit set.
C5_Witness ==
    \E n \in CompressReturns :
        \E b \in BlocksOf(calls[n].width, calls[n].height) :
            /\ SolidBlock(PixelsOf(n), calls[n].width, b)
            /\ U32Hi(EndpointsOf(Out(n), calls[n].width, b)) >= 32768
            /\ U32Lo(EndpointsOf(Out(n), calls[n].width, b)) >= 32768

(***************************************************************************)
(* C6.  In a block whose stored endpoints differ, the index of pixel k is  *)
(* the lowest palette index whose colour is nearest to the pixel, for the  *)
(* palette the format derives from the stored endpoints.                   *)
(***************************************************************************)
C6_NearestIndex ==
    \A n \in CompressReturns :
        \A b \in BlocksOf(calls[n].width, calls[n].height) :
            \A e \in {EndpointsOf(Out(n), calls[n].width, b)} :
                U32Hi(e) # U32Lo(e) =>
                    \A pal \in {FormatPalette(U32Lo(e), U32Hi(e))} :
                        \A k \in 0..15 :
                            \A px \in {PixelOf(PixelsOf(n), calls[n].width, b, k)} :
                                \A f \in {Field(IndicesOf(Out(n), calls[n].width, b), k)} :
                                    \A m \in 0..3 :
                                        /\ Dist(px, pal[f + 1]) <= Dist(px, pal[m + 1])
                                        /\ m < f => Dist(px, pal[f + 1]) < Dist(px, pal[m + 1])

\* The last pixel of a block is as near to entry 3 as to entry 2 and gets 2.
C6_Witness ==
    \E n \in CompressReturns :
        \E b \in BlocksOf(calls[n].width, calls[n].height) :
            \E e \in {EndpointsOf(Out(n), calls[n].width, b)} :
                /\ U32Hi(e) # U32Lo(e)
                /\ Field(IndicesOf(Out(n), calls[n].width, b), 15) = 2
                /\ Dist(PixelOf(PixelsOf(n), calls[n].width, b, 15),
                        FormatPalette(U32Lo(e), U32Hi(e))[3])
                      = Dist(PixelOf(PixelsOf(n), calls[n].width, b, 15),
                             FormatPalette(U32Lo(e), U32Hi(e))[4])

(***************************************************************************)
(* C7.  In every block the endpoint word holds the smaller endpoint in its *)
(* upper half and the larger in its lower half; the halves are equal       *)
(* exactly when the block took the single-colour path.                     *)
(***************************************************************************)
C7_EndpointOrder ==
    \A n \in CompressReturns :
        \A b \in BlocksOf(calls[n].width, calls[n].height) :
            \A e \in {EndpointsOf(Out(n), calls[n].width, b)} :
                \A t \in {calls[n].trace[BlockNumber(calls[n].width, b) + 1]} :
                    /\ t.j = 4 * b[1] /\ t.i = 4 * b[2]
                    /\ U32Lo(e) >= U32Hi(e)
                    /\ {U32Lo(e), U32Hi(e)} = {t.maxColor565, t.minColor565}
                    /\ U32Lo(e) = U32Hi(e) <=> t.degenerate

\* A block off the single-colour path with both endpoints above 0x7fff.
C7_Witness ==
    \E n \in CompressReturns :
        \E b \in BlocksOf(calls[n].width, calls[n].height) :
            \E e \in {EndpointsOf(Out(n), calls[n].width, b)} :
                /\ ~ calls[n].trace[BlockNumber(calls[n].width, b) + 1].degenerate
                /\ U32Lo(e) > U32Hi(e)
                /\ U32Hi(e) >= 32768

(***************************************************************************)
(* C8.  Two calls of compress on images of the same size that agree on     *)
(* every R, G and B byte return the same: both null, or equal buffers.     *)
(***************************************************************************)
SameRGB(p, q) ==
    /\ Len(p) = Len(q)
    /\ \A x \in DOMAIN p : x % 4 # 0 => p[x] = q[x]

C8_AlphaIgnored ==
    \A n \in CompressCalls, m \in CompressCalls :
        (/\ calls[n].width = calls[m].width
         /\ calls[n].height = calls[m].height
         /\ SameRGB(PixelsOf(n), PixelsOf(m)))
        => /\ calls[n].ret.kind = calls[m].ret.kind
           /\ calls[n].ret.kind = "buffer" => Out(n) = Out(m)

\* Two calls that returned buffers for images differing in alpha only.
C8_Witness ==
    \E n \in CompressReturns, m \in CompressReturns :
        /\ SameRGB(PixelsOf(n), PixelsOf(m))
        /\ PixelsOf(n) # PixelsOf(m)
        /\ calls[n].ret.ref # calls[m].ret.ref

(***************************************************************************)
(* C9.  TRANSPARENT_BLOCK always holds 1024 words 0xffffffff, and no step  *)
(* changes an array that exists: the images' pixels and the buffers that   *)
(* earlier calls returned stay as they are.                                *)
(***************************************************************************)
TransparentBlockIntact ==
    /\ Len(heap[TRANSPARENT_BLOCK]) = TRANSPARENT_BLOCK_SIZE
    /\ \A k \in DOMAIN heap[TRANSPARENT_BLOCK] : AllBytesFF(heap[TRANSPARENT_BLOCK][k])

ArraysKept == \A a \in DOMAIN heap : a \in DOMAIN heap' /\ heap'[a] = heap[a]

C9_Frame == []TransparentBlockIntact /\ [][ArraysKept]_vars

\* getTransparentImage returned a buffer, and then compress did.
C9_Witness ==
    /\ Len(calls) = 2
    /\ calls[1].op = "getTransparentImage" /\ calls[1].ret.kind = "buffer"
    /\ calls[2].op = "compress" /\ calls[2].ret.kind = "buffer"

(***************************************************************************)
(* C10.  In every block, each channel has max - inset >= min + inset, the  *)
(* endpoints before the comparison have maxColor565 >= minColor565, the    *)
(* exchange of line 148 is not made and no clamp changes a value.          *)
(***************************************************************************)
C10_NoSwapNoClamp ==
    \A n \in CompressReturns :
        \A x \in DOMAIN calls[n].trace :
            \A t \in {calls[n].trace[x]} :
                /\ t.bb.maxR - Inset(t.bb.maxR, t.bb.minR)
                      >= t.bb.minR + Inset(t.bb.maxR, t.bb.minR)
                /\ t.bb.maxG - Inset(t.bb.maxG, t.bb.minG)
                      >= t.bb.minG + Inset(t.bb.maxG, t.bb.minG)
                /\ t.bb.maxB - Inset(t.bb.maxB, t.bb.minB)
                      >= t.bb.minB + Inset(t.bb.maxB, t.bb.minB)
                /\ t.maxColor565 >= t.minColor565
                /\ ~ t.swapped
                /\ ~ t.clamped

\* A block with a nonzero inset in every channel and a channel reaching 255.
C10_Witness ==
    \E n \in CompressReturns :
        \E x \in DOMAIN calls[n].trace :
            \E t \in {calls[n].trace[x]} :
                /\ ~ t.degenerate
                /\ Inset(t.bb.maxR, t.bb.minR) > 0
                /\ Inset(t.bb.maxG, t.bb.minG) > 0
                /\ Inset(t.bb.maxB, t.bb.minB) > 0
                /\ t.bb.maxR = 255

====
